---- MODULE Spec2Model ----
(***************************************************************************)
(* The address service of src/main.py: the addresses table (src/models.py) *)
(* behind six FastAPI handlers, each run with a database session that the  *)
(* get_db dependency opens before the handler and closes after it, and the *)
(* haversine distance the two proximity queries are built on.              *)
(*                                                                         *)
(* Floats are held in fixed point: a float in [-1, 1] (a sine, a cosine,   *)
(* the haversine term a) as an integer count of 1/Scale, rounded to        *)
(* nearest as IEEE arithmetic rounds; an angle as a count of Pi/360        *)
(* radian, so that whole degrees and their halves are exact; a distance as *)
(* whole kilometres.                                                       *)
(***************************************************************************)
EXTENDS Integers, Sequences, FiniteSets, TLC

VARIABLES
    store,    \* the addresses table: rows in primary-key order
    pc,       \* per client: where its request stands
    session,  \* per client: the SessionLocal() of its request
    closes,   \* per client: db.close() calls on that session
    last      \* the request handled last: what was asked and what was answered

vars == <<store, pc, session, closes, last>>

(* ------------------------------ bounds -------------------------------- *)

MaxId == 2          \* primary keys are drawn from 1..MaxId
NumClients == 2     \* concurrent requests in SessionSpec

NoName == "None"
Names == {NoName, "home"}

\* Submitted (latitude, longitude) pairs, in degrees: three valid points, two
\* of them antipodal, and one point outside both ranges.
Points == {<<0, 0>>, <<82, 0>>, <<0 - 82, 180>>, <<100, 200>>}

\* Centres a radius query asks for: the points, and one that shares only its
\* latitude or only its longitude with them.
Centers == Points \cup {<<82, 180>>}

\* Submitted max distances, km: nothing, the model's distance between
\* (82, 0) and (100, 200), and more than half the globe.
Distances == {0, 403, 20100}

(* --------------------------- fixed point ------------------------------ *)

Scale == 10 * 1000

Abs(x) == IF x < 0 THEN 0 - x ELSE x

\* n / d rounded to nearest, ties away from zero: the same magnitude for n
\* and -n, as IEEE rounding gives.
RoundDiv(n, d) == IF n < 0 THEN 0 - ((Abs(n) * 2 + d) \div (2 * d))
                  ELSE (n * 2 + d) \div (2 * d)

Mul(x, y) == RoundDiv(x * y, Scale)

\* math.pi, in angle units of Pi/360 radian.
Pi == 360

\* math.radians: degrees to angle units.
radians(deg) == (deg * 2 * Pi) \div 360

\* math.sin on the first half turn, correctly rounded to 1/Scale, at the
\* angles the Points produce (unit Pi/360: 18 is 9 degrees).
SinTable == (0 :> 0) @@ (18 :> 1564) @@ (20 :> 1736) @@ (82 :> 6561)
            @@ (100 :> 7660) @@ (164 :> 9903) @@ (180 :> 10000)
            @@ (182 :> 9998) @@ (200 :> 9848) @@ (360 :> 0)

RECURSIVE sin(_)
sin(x) == IF x < 0 THEN 0 - sin(0 - x)
          ELSE IF x > 2 * Pi THEN sin(x - 2 * Pi)
          ELSE IF x > Pi THEN 0 - sin(x - Pi)
          ELSE SinTable[x]

\* math.cos, correctly rounded to 1/Scale, at the latitudes of the Points.
CosTable == (0 :> 10000) @@ (164 :> 1392) @@ (200 :> (0 - 1736))

cos(x) == CosTable[Abs(x)]

\* A ValueError("math domain error") raised by math.sqrt.
MathDomainError == 0 - 1

\* The integer square root of n in lo..hi by bisection.
RECURSIVE Bisect(_, _, _)
Bisect(n, lo, hi) ==
    IF lo >= hi THEN lo
    ELSE LET mid == (lo + hi + 1) \div 2
         IN  IF mid * mid <= n THEN Bisect(n, mid, hi) ELSE Bisect(n, lo, mid - 1)

\* math.sqrt of a fixed-point value: a ValueError below zero.
sqrt(v) == IF v < 0 THEN MathDomainError ELSE Bisect(v * Scale, 0, 2 * Scale)

\* atan on [0, 1], in radians at 1/Scale (a degree-9 odd polynomial).
AtanUnit(t) ==
    LET t2 == Mul(t, t)
        p4 == 208
        p3 == Mul(t2, p4) - 851
        p2 == Mul(t2, p3) + 1801
        p1 == Mul(t2, p2) - 3303
        p0 == Mul(t2, p1) + 9999
    IN  Mul(t, p0)

\* math.atan2 for y >= 0 and x >= 0, in radians at 1/Scale.
atan2(y, x) ==
    IF y = 0 THEN 0
    ELSE IF x = 0 THEN 15708
    ELSE IF y <= x THEN AtanUnit(RoundDiv(y * Scale, x))
    ELSE 15708 - AtanUnit(RoundDiv(x * Scale, y))

(* --------------------------- get_distance ----------------------------- *)

earth_r == 6373

\* haversine_a with cos(lat1) taken twice.
haversine_a_lat1(lat1, lon1, lat2, lon2) ==
    LET dlon == lon2 - lon1
        dlat == lat2 - lat1
        sin_dlat == sin(dlat \div 2)
        sin_dlon == sin(dlon \div 2)
    IN  Mul(sin_dlat, sin_dlat)
            + Mul(Mul(cos(lat1), cos(lat1)), Mul(sin_dlon, sin_dlon))

\* The haversine term: a = sin(dlat/2)^2 + cos(lat1) cos(lat2) sin(dlon/2)^2.
haversine_a(lat1, lon1, lat2, lon2) ==
    LET dlon == lon2 - lon1
        dlat == lat2 - lat1
        sin_dlat == sin(dlat \div 2)
        sin_dlon == sin(dlon \div 2)
    IN  Mul(sin_dlat, sin_dlat)
            + Mul(Mul(cos(lat1), cos(lat2)), Mul(sin_dlon, sin_dlon))

\* Kilometres between two points given in degrees, or MathDomainError when
\* rounding leaves a outside [0, 1] and math.sqrt raises.
get_distance(loc_lat1, loc_lon1, loc_lat2, loc_lon2) ==
    LET lat1 == radians(loc_lat1)
        lon1 == radians(loc_lon1)
        lat2 == radians(loc_lat2)
        lon2 == radians(loc_lon2)
        a == haversine_a(lat1, lon1, lat2, lon2)
        sqrt_a == sqrt(a)
        sqrt_1_a == sqrt(Scale - a)
    IN  IF sqrt_a = MathDomainError \/ sqrt_1_a = MathDomainError
        THEN MathDomainError
        ELSE RoundDiv(earth_r * (2 * atan2(sqrt_a, sqrt_1_a)), Scale)

(* ----------------------------- the table ------------------------------ *)

Clients == 1 .. NumClients

Addresses(id, name, lat, lon) ==
    [id |-> id, name |-> name, loc_lat |-> lat, loc_lon |-> lon]

Ids(rows) == {rows[i].id : i \in DOMAIN rows}

\* first_by_id without its filter: the first row of the table.
first_unfiltered(rows, address_id) == IF rows = <<>> THEN 0 ELSE 1

\* db.query(Addresses).filter(Addresses.id == address_id).first(): the index
\* of the row, 0 for None.
first_by_id(rows, address_id) ==
    IF \E i \in DOMAIN rows : rows[i].id = address_id
    THEN CHOOSE i \in DOMAIN rows :
            /\ rows[i].id = address_id
            /\ \A j \in 1 .. (i - 1) : rows[j].id # address_id
    ELSE 0

\* db.query(Addresses).filter(loc_lat == .., loc_lon == ..).first(): the
\* index of the first row with exactly these coordinates, 0 for None.
first_by_coordinates(rows, loc_lat, loc_lon) ==
    IF \E i \in DOMAIN rows : rows[i].loc_lat = loc_lat /\ rows[i].loc_lon = loc_lon
    THEN CHOOSE i \in DOMAIN rows :
            /\ rows[i].loc_lat = loc_lat /\ rows[i].loc_lon = loc_lon
            /\ \A j \in 1 .. (i - 1) :
                  ~(rows[j].loc_lat = loc_lat /\ rows[j].loc_lon = loc_lon)
    ELSE 0

\* db.add(new row); db.commit(): the row takes its place in key order.
insert_row(rows, row) ==
    LET k == Cardinality({i \in DOMAIN rows : rows[i].id < row.id})
    IN  SubSeq(rows, 1, k) \o <<row>> \o SubSeq(rows, k + 1, Len(rows))

\* update_row that keeps the old name when none is submitted.
update_row_keep_name(rows, i, address) ==
    [rows EXCEPT ![i] = Addresses(rows[i].id,
                                  IF address.name = NoName THEN rows[i].name
                                  ELSE address.name,
                                  address.loc_lat, address.loc_lon)]

\* address_model.name = ..; .loc_lat = ..; .loc_lon = ..; db.add; db.commit.
update_row(rows, i, address) ==
    [rows EXCEPT ![i] = Addresses(rows[i].id, address.name,
                                  address.loc_lat, address.loc_lon)]

\* delete_by_id without its filter on the row removed: the first row goes.
delete_first(rows, address_id) == IF rows = <<>> THEN <<>> ELSE Tail(rows)

RECURSIVE delete_by_id(_, _)
\* db.query(Addresses).filter(Addresses.id == address_id).delete(); commit.
delete_by_id(rows, address_id) ==
    IF rows = <<>> THEN <<>>
    ELSE IF Head(rows).id = address_id THEN delete_by_id(Tail(rows), address_id)
    ELSE <<Head(rows)>> \o delete_by_id(Tail(rows), address_id)

(* --------------------------- the Address body ------------------------- *)

\* Field(gte=.., lte=..): pydantic's bounds are named ge and le; gte and lte
\* are kept as extra schema keys and constrain nothing.
Field(value, gte, lte) == TRUE

\* Whether a submitted body passes the Address model.
Address(body) ==
    /\ Field(body.loc_lat, 0 - 90, 90)
    /\ Field(body.loc_lon, 0 - 180, 180)

(* ------------------------------ responses ----------------------------- *)

NoArgs == [id |-> 0, name |-> NoName, loc_lat |-> 0, loc_lon |-> 0, distance |-> 0]

\* What a handler leaves: its request in `last`, and the client either
\* returned from the handler or raised out of it.
Respond(r, op, args, status, detail, body, pairs) ==
    /\ last' = [op |-> op, args |-> args, status |-> status, detail |-> detail,
                body |-> body, pairs |-> pairs]
    /\ pc' = [pc EXCEPT ![r] = IF status < 400 THEN "returned" ELSE "raised"]
    /\ UNCHANGED <<session, closes>>

successful_response(r, op, args, status_code) ==
    Respond(r, op, args, status_code, "Successful", <<>>, <<>>)

http_exception(r, op, args) ==
    Respond(r, op, args, 404, "Address not found", <<>>, <<>>)

\* Pydantic rejects the body before the handler runs.
validation_error(r, op, args) ==
    Respond(r, op, args, 422, "Unprocessable Entity", <<>>, <<>>)

\* An exception no handler catches: Starlette answers 500.
server_error(r, op, args) ==
    Respond(r, op, args, 500, "Internal Server Error", <<>>, <<>>)

(* --------------------------- the dependency --------------------------- *)

\* get_db up to its yield: db = SessionLocal(); yield db.
get_db(r) ==
    /\ pc[r] = "idle"
    /\ pc' = [pc EXCEPT ![r] = "handler"]
    /\ session' = [session EXCEPT ![r] = "open"]
    /\ closes' = [closes EXCEPT ![r] = 0]
    /\ UNCHANGED <<store, last>>

\* get_db without its try/finally: db.close() only when the handler returned.
get_db_close_on_return(r) ==
    /\ pc[r] \in {"returned", "raised"}
    /\ pc' = [pc EXCEPT ![r] = "idle"]
    /\ session' = [session EXCEPT ![r] = IF pc[r] = "returned" THEN "closed"
                                         ELSE session[r]]
    /\ closes' = [closes EXCEPT ![r] = IF pc[r] = "returned" THEN closes[r] + 1
                                       ELSE closes[r]]
    /\ UNCHANGED <<store, last>>

\* get_db after its yield: finally: db.close(), whether the handler returned
\* or raised.
get_db_finally(r) ==
    /\ pc[r] \in {"returned", "raised"}
    /\ pc' = [pc EXCEPT ![r] = "idle"]
    /\ session' = [session EXCEPT ![r] = "closed"]
    /\ closes' = [closes EXCEPT ![r] = closes[r] + 1]
    /\ UNCHANGED <<store, last>>

(* ------------------------------ handlers ------------------------------ *)

\* GET /
read_all(r) ==
    /\ pc[r] = "handler"
    /\ Respond(r, "read_all", NoArgs, 200, "", store, <<>>)
    /\ UNCHANGED store

RECURSIVE radius_loop(_, _, _, _, _, _)
\* for x in range(len(locations_in_db)), from x on: the list built, or the
\* ValueError get_distance raised.
radius_loop(locations_in_db, x, lat1, lon1, distance, location_list_within_distance) ==
    IF x > Len(locations_in_db)
    THEN [raised |-> FALSE, list |-> location_list_within_distance]
    ELSE LET lat2 == locations_in_db[x].loc_lat
             lon2 == locations_in_db[x].loc_lon
         IN  IF lat1 = lat2 /\ lon1 = lon2
             THEN radius_loop(locations_in_db, x + 1, lat1, lon1, distance,
                              location_list_within_distance)
             ELSE LET current_distance == get_distance(lat1, lon1, lat2, lon2)
                  IN  IF current_distance = MathDomainError
                      THEN [raised |-> TRUE, list |-> <<>>]
                      ELSE IF current_distance <= distance
                      THEN radius_loop(locations_in_db, x + 1, lat1, lon1, distance,
                                       Append(location_list_within_distance,
                                              locations_in_db[x]))
                      ELSE radius_loop(locations_in_db, x + 1, lat1, lon1, distance,
                                       location_list_within_distance)

\* GET /addresses/?loc_lat=&loc_lon=&distance=
read_address_by_given_coordinates_and_distance(r, loc_lat, loc_lon, distance) ==
    LET args == [NoArgs EXCEPT !.loc_lat = loc_lat, !.loc_lon = loc_lon,
                               !.distance = distance]
        address_model == first_by_coordinates(store, loc_lat, loc_lon)
    IN  /\ pc[r] = "handler"
        /\ UNCHANGED store
        /\ IF address_model = 0
           THEN http_exception(r, "radius", args)
           ELSE LET out == radius_loop(store, 1, store[address_model].loc_lat,
                                       store[address_model].loc_lon, distance, <<>>)
                IN  IF out.raised
                    THEN server_error(r, "radius", args)
                    ELSE Respond(r, "radius", args, 200, "", out.list, <<>>)

RECURSIVE pairs_loop(_, _, _, _, _)
\* for x in range(0, n): for y in range(x + 1, n), from (x, y) on.
pairs_loop(locations_in_db, x, y, distance, location_list_within_distance) ==
    IF x > Len(locations_in_db)
    THEN [raised |-> FALSE, list |-> location_list_within_distance]
    ELSE IF y > Len(locations_in_db)
    THEN pairs_loop(locations_in_db, x + 1, x + 2, distance,
                    location_list_within_distance)
    ELSE LET current_distance ==
                 get_distance(locations_in_db[x].loc_lat, locations_in_db[x].loc_lon,
                              locations_in_db[y].loc_lat, locations_in_db[y].loc_lon)
         IN  IF current_distance = MathDomainError
             THEN [raised |-> TRUE, list |-> <<>>]
             ELSE IF current_distance <= distance
             THEN pairs_loop(locations_in_db, x, y + 1, distance,
                             Append(location_list_within_distance,
                                    <<locations_in_db[x], locations_in_db[y]>>))
             ELSE pairs_loop(locations_in_db, x, y + 1, distance,
                             location_list_within_distance)

\* GET /addresses/{distance}
read_address_by_distance_between_them(r, distance) ==
    LET args == [NoArgs EXCEPT !.distance = distance]
        out == pairs_loop(store, 1, 2, distance, <<>>)
    IN  /\ pc[r] = "handler"
        /\ UNCHANGED store
        /\ IF out.raised
           THEN server_error(r, "pairs", args)
           ELSE Respond(r, "pairs", args, 200, "", <<>>, out.list)

\* POST /: the database assigns a primary key that no row holds.
create_address(r, id, address) ==
    LET args == [NoArgs EXCEPT !.id = id, !.name = address.name,
                               !.loc_lat = address.loc_lat,
                               !.loc_lon = address.loc_lon]
    IN  /\ pc[r] = "handler"
        /\ id \notin Ids(store)
        /\ IF ~Address(address)
           THEN /\ validation_error(r, "create", args)
                /\ UNCHANGED store
           ELSE /\ store' = insert_row(store, Addresses(id, address.name,
                                                        address.loc_lat,
                                                        address.loc_lon))
                /\ successful_response(r, "create", args, 201)

\* PUT /{address_id}
update_address(r, address_id, address) ==
    LET args == [NoArgs EXCEPT !.id = address_id, !.name = address.name,
                               !.loc_lat = address.loc_lat,
                               !.loc_lon = address.loc_lon]
        address_model == first_by_id(store, address_id)
    IN  /\ pc[r] = "handler"
        /\ IF ~Address(address)
           THEN /\ validation_error(r, "update", args)
                /\ UNCHANGED store
           ELSE IF address_model = 0
           THEN /\ http_exception(r, "update", args)
                /\ UNCHANGED store
           ELSE /\ store' = update_row(store, address_model, address)
                /\ successful_response(r, "update", args, 200)

\* DELETE /{address_id}
delete_address(r, address_id) ==
    LET args == [NoArgs EXCEPT !.id = address_id]
        address_model == first_by_id(store, address_id)
    IN  /\ pc[r] = "handler"
        /\ IF address_model = 0
           THEN /\ http_exception(r, "delete", args)
                /\ UNCHANGED store
           ELSE /\ store' = delete_by_id(store, address_id)
                /\ successful_response(r, "delete", args, 200)

(* --------------------------- specifications --------------------------- *)

Bodies(points, names) ==
    {[name |-> n, loc_lat |-> p[1], loc_lon |-> p[2]] : n \in names, p \in points}

Init ==
    /\ store = <<>>
    /\ pc = [r \in Clients |-> "idle"]
    /\ session = [r \in Clients |-> "none"]
    /\ closes = [r \in Clients |-> 0]
    /\ last = [op |-> "none", args |-> NoArgs, status |-> 0, detail |-> "",
               body |-> <<>>, pairs |-> <<>>]

\* The handler of client r's request, with what the request submits drawn
\* from the given sets.
Handler(r, points, centers, names, distances) ==
    \/ read_all(r)
    \/ \E c \in centers, d \in distances :
          read_address_by_given_coordinates_and_distance(r, c[1], c[2], d)
    \/ \E d \in distances : read_address_by_distance_between_them(r, d)
    \/ \E id \in 1 .. MaxId, b \in Bodies(points, names) : create_address(r, id, b)
    \/ \E id \in 1 .. MaxId, b \in Bodies(points, names) : update_address(r, id, b)
    \/ \E id \in 1 .. MaxId : delete_address(r, id)

Request(r, points, centers, names, distances) ==
    \/ get_db(r)
    \/ Handler(r, points, centers, names, distances)
    \/ get_db_finally(r)

\* One client at a time, over every submitted point, name and distance.
Next == \E r \in {1} : Request(r, Points, Centers, Names, Distances)

Spec == Init /\ [][Next]_vars

\* Concurrent clients over one point: the session of each request.
SessionPoints == {<<82, 0>>}
SessionNames == {NoName}
SessionDistances == {0}

SessionNext == \E r \in Clients : Request(r, SessionPoints, SessionPoints, SessionNames, SessionDistances)

\* FastAPI runs the handler once its dependencies are solved and always
\* resumes a yielding dependency when the handler is over.
SessionSpec ==
    /\ Init
    /\ [][SessionNext]_vars
    /\ \A r \in Clients :
          /\ WF_vars(Handler(r, SessionPoints, SessionPoints, SessionNames,
                           SessionDistances))
          /\ WF_vars(get_db_finally(r))

(* ------------------------------- claims ------------------------------- *)

InRange(lat, lon) == lat >= 0 - 90 /\ lat <= 90 /\ lon >= 0 - 180 /\ lon <= 180

\* A step in which some client's handler runs: last' is its request.
HandlerStep == \E r \in Clients : pc[r] = "handler" /\ pc'[r] \in {"returned", "raised"}

Matching(rows, lat, lon) ==
    {i \in DOMAIN rows : rows[i].loc_lat = lat /\ rows[i].loc_lon = lon}

Within(row1, row2, distance) ==
    LET d == get_distance(row1.loc_lat, row1.loc_lon, row2.loc_lat, row2.loc_lon)
    IN  d # MathDomainError /\ d <= distance

\* C1: every stored address has latitude in [-90, 90] and longitude in
\* [-180, 180], whatever was created, updated and deleted.
C1_StoredWithinRanges ==
    \A i \in DOMAIN store : InRange(store[i].loc_lat, store[i].loc_lon)

\* C2: a create or update that submits a latitude outside [-90, 90] or a
\* longitude outside [-180, 180] ends with the validation failure (422, not
\* 404) and leaves the table as it was.
C2_OutOfRangeRejected ==
    [][(/\ HandlerStep
        /\ last'.op \in {"create", "update"}
        /\ ~InRange(last'.args.loc_lat, last'.args.loc_lon))
       => (last'.status = 422 /\ store' = store)]_vars

\* C3: an update or delete of an id the table does not hold ends with 404
\* "Address not found" and leaves the table as it was; an update or delete
\* of an id the table holds never ends with 404.
C3_NotFoundIffAbsent ==
    [][(HandlerStep /\ last'.op \in {"update", "delete"})
       => IF last'.args.id \notin Ids(store)
          THEN /\ last'.status = 404
               /\ last'.detail = "Address not found"
               /\ store' = store
          ELSE last'.status # 404]_vars

C3_Witness ==
    /\ last.op \in {"update", "delete"}
    /\ last.status = 404
    /\ store # <<>>

\* C4: the radius query ends with 404 exactly when no stored address has
\* both coordinates equal to the requested centre, and returns a result
\* collection (200) whenever one has.
C4_RadiusNotFoundIffNoMatch ==
    (last.op = "radius")
    => IF Matching(store, last.args.loc_lat, last.args.loc_lon) = {}
       THEN last.status = 404
       ELSE last.status = 200

\* C5: a radius query whose centre matches a stored address returns exactly
\* the stored addresses whose coordinates differ from the centre's and whose
\* distance to it is at most the submitted distance, in table order.
C5_RadiusResult ==
    (/\ last.op = "radius"
     /\ Matching(store, last.args.loc_lat, last.args.loc_lon) # {})
    => LET center == [loc_lat |-> last.args.loc_lat, loc_lon |-> last.args.loc_lon]
           Keep(row) == /\ ~(row.loc_lat = center.loc_lat /\ row.loc_lon = center.loc_lon)
                        /\ Within(center, row, last.args.distance)
       IN  /\ last.status = 200
           /\ last.body = SelectSeq(store, Keep)
           /\ \A k \in DOMAIN last.body :
                 ~(last.body[k].loc_lat = center.loc_lat
                   /\ last.body[k].loc_lon = center.loc_lon)

\* C6: the all-pairs query returns the pair (rows[i], rows[j]), i < j,
\* exactly when the two are within the submitted distance: no row with
\* itself, no pair twice, ordered by i and then by j.
C6_PairsResult ==
    (last.op = "pairs")
    => LET P == last.pairs
       IN  /\ last.status = 200
           /\ \A i, j \in DOMAIN store :
                 (i < j) => ((\E k \in DOMAIN P : P[k] = <<store[i], store[j]>>)
                             <=> Within(store[i], store[j], last.args.distance))
           /\ \A k \in DOMAIN P :
                 \E i, j \in DOMAIN store : i < j /\ P[k] = <<store[i], store[j]>>
           /\ \A k, l \in DOMAIN P :
                 (k < l) => \/ P[k][1].id < P[l][1].id
                            \/ P[k][1].id = P[l][1].id /\ P[k][2].id < P[l][2].id

C8_UpdateOverwrites ==
    [][(/\ HandlerStep
        /\ last'.op = "update"
        /\ last'.args.id \in Ids(store))
       => /\ last'.status = 200
          /\ Len(store') = Len(store)
          /\ \A i \in DOMAIN store :
                IF store[i].id = last'.args.id
                THEN store'[i] = [id |-> last'.args.id,
                                  name |-> last'.args.name,
                                  loc_lat |-> last'.args.loc_lat,
                                  loc_lon |-> last'.args.loc_lon]
                ELSE store'[i] = store[i]]_vars

C8_Witness ==
    /\ last.op = "update"
    /\ last.status = 200
    /\ last.args.name = NoName
    /\ Len(store) = 2
    /\ \E i \in DOMAIN store : store[i].id = last.args.id /\ store[i].name = NoName

\* C9: a delete of an id the table holds removes that row and no other; from
\* then on the id is in the table again only once a create is assigned it,
\* and until then every delete or update of it ends with 404.
C9_DeleteRemoves ==
    [][/\ (/\ HandlerStep
           /\ last'.op = "delete"
           /\ last'.args.id \in Ids(store))
          => /\ last'.status = 200
             /\ last'.args.id \notin Ids(store')
             /\ Len(store') = Len(store) - 1
             /\ \A i \in DOMAIN store :
                   (store[i].id # last'.args.id)
                   => \E j \in DOMAIN store' : store'[j] = store[i]
       /\ \A id \in Ids(store') \ Ids(store) :
             /\ HandlerStep
             /\ last'.op = "create"
             /\ last'.status = 201
             /\ last'.args.id = id
       /\ (/\ HandlerStep
           /\ last'.op \in {"update", "delete"}
           /\ last'.args.id \notin Ids(store))
          => (last'.status = 404 /\ last'.args.id \notin Ids(store'))]_vars

C9_Witness ==
    /\ last.op = "delete"
    /\ last.status = 200
    /\ Len(store) = 1
    /\ last.args.id \notin Ids(store)

\* C10: the session a request opens is closed, once, when the request is
\* over, whether its handler returned or raised: no finished request leaves
\* its session open, and every open session is eventually closed.
C10_SessionClosed ==
    /\ [](\A r \in Clients :
            /\ (pc[r] = "idle") => (session[r] # "open")
            /\ closes[r] <= 1
            /\ (session[r] = "closed") => (closes[r] = 1))
    /\ \A r \in Clients : (session[r] = "open") ~> (session[r] = "closed")

C10_Witness ==
    \E r \in Clients :
        /\ pc[r] = "idle"
        /\ session[r] = "closed"
        /\ closes[r] = 1
        /\ last.status = 404

====
